---- MODULE Spec2Model ----
(***************************************************************************)
(* TrendRadar MCP server (src/mcp_server/server.py): the tool registry,    *)
(* the thirteen tool handlers and run_server, as a state machine.          *)
(*                                                                         *)
(* The tool classes (DataQueryTools, AnalyticsTools, SearchTools,          *)
(* ConfigManagementTools, SystemManagementTools) live outside this file.   *)
(* Their constructors are modelled as returning an instance that remembers *)
(* the project_root it was built with; their methods either return a       *)
(* Python value or raise.                                                  *)
(*                                                                         *)
(* Every handler is an `async def` whose body holds no `await`: on the     *)
(* asyncio event loop that FastMCP runs, a handler that has started keeps  *)
(* the loop until it returns or raises.  The handler is split into steps   *)
(* here only so that a state "the tool call is in progress" exists.        *)
(***************************************************************************)
EXTENDS Integers, Sequences, FiniteSets, TLC

VARIABLES
    phase,            \* "init": run_server not called yet; "serving": mcp is serving; "failed": run_server raised
    runArgs,          \* the arguments run_server was called with, or NoRun
    runError,         \* the exception run_server raised, or "none"
    tools_instances,  \* _tools_instances: component key -> project_root of the instance, or Absent
    instCount,        \* per tool class, how many times its constructor has returned an instance
    mcpRuns,          \* the calls of mcp.run made so far, in order
    stdout,           \* the lines run_server has printed, in order
    pending,          \* requests received by the transport whose handler has not started
    current,          \* the request whose handler holds the event loop, or NoReq
    batches,          \* batch iterations the running tool call has gone through
    cancelled,        \* the caller has cancelled the request that is being handled
    afterCancel,      \* batch iterations the running tool call went through after that cancellation
    calls,            \* method calls on tool instances made by the handler of `current` (or of `last`)
    last,             \* the last finished handler: its request, what the tool did, what the handler did
    main_pc,          \* manage.py: "off" (not this process), "start" (main not entered), "done" (main returned)
    argv,             \* manage.py: sys.argv[1:]
    environ,          \* manage.py: os.environ restricted to the variables show_config prints
    pid1,             \* manage.py: what /proc/1/cmdline holds, or that it cannot be read
    ran,              \* manage.py: the command functions main has called, in order
    printed,          \* manage.py: what has been printed, in order
    effects,          \* manage.py: processes run and files opened, in order
    cron_expr,        \* the argument of a parse_cron_schedule call
    cron_result       \* what that call returned or raised, or NotCalled

vars == <<phase, runArgs, runError, tools_instances, instCount, mcpRuns, stdout,
          pending, current, batches, cancelled, afterCancel, calls, last,
          main_pc, argv, environ, pid1, ran, printed, effects, cron_expr, cron_result>>

serverVars == <<phase, runArgs, runError, mcpRuns, stdout>>
registryVars == <<tools_instances, instCount>>
loopVars == <<current, batches, cancelled, afterCancel, calls, last>>
manageVars == <<main_pc, argv, environ, pid1, ran, printed, effects>>
cronVars == <<cron_expr, cron_result>>
opsVars == <<manageVars, cronVars>>

----------------------------------------------------------------------------
(* Bounds of the model *)

\* requests the transport holds before their handler starts
MaxPending == 1

\* batch iterations one tool call can go through
MaxBatches == 2

----------------------------------------------------------------------------
(* Python values and JSON documents *)

PyNone == [t |-> "none"]
PyBool(b) == [t |-> "bool", v |-> b]
PyInt(n) == [t |-> "int", v |-> n]
PyStr(s) == [t |-> "str", v |-> s]
PyList(items) == [t |-> "list", items |-> items]
PyTuple(items) == [t |-> "tuple", items |-> items]
\* a dict is its set of <<key, value>> pairs (== on dicts ignores order)
PyDict(pairs) == [t |-> "dict", pairs |-> pairs]
\* an instance of a class json does not know, such as datetime
PyObject(cls) == [t |-> "object", cls |-> cls]

JNull == [j |-> "null"]
JBool(b) == [j |-> "bool", v |-> b]
JNumber(n) == [j |-> "number", v |-> n]
JString(s) == [j |-> "string", v |-> s]
JArray(items) == [j |-> "array", items |-> items]
JObject(members) == [j |-> "object", members |-> members]

\* str(n) for the integers the model uses
IntStr(n) == <<"0", "1", "2", "3", "4", "5", "6", "7", "8", "9">>[n + 1]

\* json.dumps turns a dict key that is an int, a bool or None into a string
KeyOk(k) == k.t \in {"str", "int", "bool", "none"}

KeyStr(k) ==
    CASE k.t = "str" -> k.v
      [] k.t = "int" -> IntStr(k.v)
      [] k.t = "bool" -> IF k.v THEN "true" ELSE "false"
      [] k.t = "none" -> "null"

RECURSIVE Serializable(_)
Serializable(v) ==
    CASE v.t \in {"none", "bool", "int", "str"} -> TRUE
      [] v.t \in {"list", "tuple"} -> \A i \in 1..Len(v.items) : Serializable(v.items[i])
      [] v.t = "dict" -> \A p \in v.pairs : KeyOk(p[1]) /\ Serializable(p[2])
      [] OTHER -> FALSE

\* the document json.dumps(v, ensure_ascii=False, indent=2) writes, as its syntax tree
RECURSIVE Encode(_)
Encode(v) ==
    CASE v.t = "none" -> JNull
      [] v.t = "bool" -> JBool(v.v)
      [] v.t = "int" -> JNumber(v.v)
      [] v.t = "str" -> JString(v.v)
      [] v.t \in {"list", "tuple"} -> JArray([i \in 1..Len(v.items) |-> Encode(v.items[i])])
      [] v.t = "dict" -> JObject({<<KeyStr(p[1]), Encode(p[2])>> : p \in v.pairs})

\* json.loads of a document
RECURSIVE Decode(_)
Decode(d) ==
    CASE d.j = "null" -> PyNone
      [] d.j = "bool" -> PyBool(d.v)
      [] d.j = "number" -> PyInt(d.v)
      [] d.j = "string" -> PyStr(d.v)
      [] d.j = "array" -> PyList([i \in 1..Len(d.items) |-> Decode(d.items[i])])
      [] d.j = "object" -> PyDict({<<PyStr(m[1]), Decode(m[2])>> : m \in d.members})

\* what a call returns or raises
Returned(v) == [kind |-> "returned", value |-> v]
Raised(e) == [kind |-> "raised", error |-> e]

json_dumps(v) == IF Serializable(v) THEN Returned(Encode(v)) ELSE Raised("TypeError")

----------------------------------------------------------------------------
(* The tool registry *)

\* the keys of _tools_instances
Components == {"data", "analytics", "search", "config", "system"}

\* project_root values; NoneRoot is Python's None, the default of _get_tools
NoneRoot == "None"
Roots == {NoneRoot, "/srv/trendradar"}

\* a key that is not in the dict
Absent == "absent"

\* `not _tools_instances`: the dict is empty
Empty(reg) == \A c \in Components : reg[c] = Absent

\* _get_tools without its `if not _tools_instances` guard
get_tools_unguarded(reg, project_root) ==
    [instances |-> [c \in Components |-> project_root], constructed |-> Components]

\* _get_tools(project_root): the dict it returns, and the tool classes it instantiated
get_tools(reg, project_root) ==
    IF Empty(reg)
    THEN [instances |-> [c \in Components |-> project_root], constructed |-> Components]
    ELSE [instances |-> reg, constructed |-> {}]

Counted(count, constructed) ==
    [c \in Components |-> IF c \in constructed THEN count[c] + 1 ELSE count[c]]

----------------------------------------------------------------------------
(* The tools and the requests the model submits *)

Tools == {"get_latest_news", "get_trending_topics", "get_news_by_date",
          "analyze_topic_trend", "analyze_data_insights", "analyze_sentiment",
          "find_similar_news", "generate_summary_report",
          "search_news", "search_related_news_history",
          "get_current_config", "get_system_status", "trigger_crawl"}

\* every handler indexing tools['data']
Component_data(tool) == "data"

\* tools[...] : the registry key each handler indexes
Component(tool) ==
    CASE tool \in {"get_latest_news", "get_trending_topics", "get_news_by_date"} -> "data"
      [] tool \in {"analyze_topic_trend", "analyze_data_insights", "analyze_sentiment",
                   "find_similar_news", "generate_summary_report"} -> "analytics"
      [] tool \in {"search_news", "search_related_news_history"} -> "search"
      [] tool = "get_current_config" -> "config"
      [] tool \in {"get_system_status", "trigger_crawl"} -> "system"

\* the method each handler calls on that instance
Method(tool) ==
    CASE tool = "analyze_topic_trend" -> "analyze_topic_trend_unified"
      [] tool = "analyze_data_insights" -> "analyze_data_insights_unified"
      [] tool = "search_news" -> "search_news_unified"
      [] OTHER -> tool

\* a date_range object {"start": s, "end": e}
DateRange(s, e) == [t |-> "dict", start |-> s, end |-> e]

IsoRange == DateRange("2025-01-01", "2025-01-07")
NlStart == DateRange("today", "2025-01-07")
NlEnd == DateRange("2025-01-01", "yesterday")

\* thresholds are in hundredths: 60 is 0.6, 150 is 1.5, 300 is the default 3.0 of
\* analyze_topic_trend, 70 its confidence_threshold 0.7
ArgSets(tool) ==
    CASE tool = "get_latest_news" ->
           {[platforms |-> PyNone, limit |-> l, include_url |-> FALSE] : l \in {50, 1001}}
      [] tool = "get_trending_topics" ->
           {[top_n |-> 10, mode |-> "current"]}
      [] tool = "get_news_by_date" ->
           {[date_query |-> "yesterday", platforms |-> PyNone, limit |-> 50, include_url |-> FALSE],
            [date_query |-> "2025-01-15", platforms |-> PyNone, limit |-> 1001, include_url |-> TRUE]}
      [] tool = "analyze_topic_trend" ->
           {[topic |-> "AI", analysis_type |-> "trend", date_range |-> d, granularity |-> "day",
             threshold |-> 300, time_window |-> 24, lookahead_hours |-> 6,
             confidence_threshold |-> 70] : d \in {IsoRange, NlStart}}
      [] tool = "analyze_data_insights" ->
           {[insight_type |-> "platform_compare", topic |-> PyNone, date_range |-> d,
             min_frequency |-> 3, top_n |-> 20] : d \in {PyNone, NlEnd}}
      [] tool = "analyze_sentiment" ->
           {[topic |-> PyNone, platforms |-> PyNone, date_range |-> IsoRange, limit |-> 101,
             sort_by_weight |-> TRUE, include_url |-> FALSE],
            [topic |-> PyNone, platforms |-> PyNone, date_range |-> NlStart, limit |-> 50,
             sort_by_weight |-> TRUE, include_url |-> FALSE]}
      [] tool = "find_similar_news" ->
           {[reference_title |-> "Company X cuts prices", threshold |-> 60, limit |-> 50,
             include_url |-> FALSE],
            [reference_title |-> "Company X cuts prices", threshold |-> 150, limit |-> 101,
             include_url |-> FALSE]}
      [] tool = "generate_summary_report" ->
           {[report_type |-> "daily", date_range |-> d] : d \in {PyNone, NlStart}}
      [] tool = "search_news" ->
           {[query |-> "AI", search_mode |-> "fuzzy", date_range |-> PyNone, platforms |-> PyNone,
             limit |-> 50, sort_by |-> "relevance", threshold |-> 60, include_url |-> FALSE],
            [query |-> "AI", search_mode |-> "fuzzy", date_range |-> IsoRange, platforms |-> PyNone,
             limit |-> 1001, sort_by |-> "relevance", threshold |-> 150, include_url |-> FALSE],
            [query |-> "AI", search_mode |-> "keyword", date_range |-> NlEnd, platforms |-> PyNone,
             limit |-> 50, sort_by |-> "date", threshold |-> 60, include_url |-> FALSE]}
      [] tool = "search_related_news_history" ->
           {[reference_text |-> "Company X cuts prices", time_preset |-> "yesterday",
             threshold |-> 40, limit |-> 50, include_url |-> FALSE],
            [reference_text |-> "Company X cuts prices", time_preset |-> "last_week",
             threshold |-> 0 - 10, limit |-> 101, include_url |-> FALSE]}
      [] tool = "get_current_config" ->
           {[section |-> "all"]}
      [] tool = "get_system_status" ->
           {[none |-> TRUE]}
      [] tool = "trigger_crawl" ->
           {[platforms |-> PyNone, save_to_local |-> FALSE, include_url |-> FALSE]}

Requests == UNION {{[tool |-> tool, args |-> a] : a \in ArgSets(tool)} : tool \in Tools}

\* the keyword arguments each handler writes in its call of the tool method
Kwargs(tool, a) ==
    CASE tool = "get_latest_news" ->
           [platforms |-> a.platforms, limit |-> a.limit, include_url |-> a.include_url]
      [] tool = "get_trending_topics" ->
           [top_n |-> a.top_n, mode |-> a.mode]
      [] tool = "get_news_by_date" ->
           [date_query |-> a.date_query, platforms |-> a.platforms, limit |-> a.limit,
            include_url |-> a.include_url]
      [] tool = "analyze_topic_trend" ->
           [topic |-> a.topic, analysis_type |-> a.analysis_type, date_range |-> a.date_range,
            granularity |-> a.granularity, threshold |-> a.threshold,
            time_window |-> a.time_window, lookahead_hours |-> a.lookahead_hours,
            confidence_threshold |-> a.confidence_threshold]
      [] tool = "analyze_data_insights" ->
           [insight_type |-> a.insight_type, topic |-> a.topic, date_range |-> a.date_range,
            min_frequency |-> a.min_frequency, top_n |-> a.top_n]
      [] tool = "analyze_sentiment" ->
           [topic |-> a.topic, platforms |-> a.platforms, date_range |-> a.date_range,
            limit |-> a.limit, sort_by_weight |-> a.sort_by_weight,
            include_url |-> a.include_url]
      [] tool = "find_similar_news" ->
           [reference_title |-> a.reference_title, threshold |-> a.threshold,
            limit |-> a.limit, include_url |-> a.include_url]
      [] tool = "generate_summary_report" ->
           [report_type |-> a.report_type, date_range |-> a.date_range]
      [] tool = "search_news" ->
           [query |-> a.query, search_mode |-> a.search_mode, date_range |-> a.date_range,
            platforms |-> a.platforms, limit |-> a.limit, sort_by |-> a.sort_by,
            threshold |-> a.threshold, include_url |-> a.include_url]
      [] tool = "search_related_news_history" ->
           [reference_text |-> a.reference_text, time_preset |-> a.time_preset,
            threshold |-> a.threshold, limit |-> a.limit, include_url |-> a.include_url]
      [] tool = "get_current_config" ->
           [section |-> a.section]
      [] tool = "get_system_status" ->
           [none |-> TRUE]
      [] tool = "trigger_crawl" ->
           [platforms |-> a.platforms, save_to_local |-> a.save_to_local,
            include_url |-> a.include_url]

\* handlers that leave date_range out of the call, so that the method's default applies
Forward_no_date_range(tool, a) ==
    IF tool \in {"generate_summary_report", "search_news"}
    THEN [Kwargs(tool, a) EXCEPT !.date_range = PyNone]
    ELSE Kwargs(tool, a)

\* what the tool method receives: each parameter under its own name, as the caller gave it
Forward(tool, a) == Kwargs(tool, a)

\* the one call a handler makes: tools[component].method(**kwargs)
ToolCall(tool, a, tools) ==
    [component |-> Component(tool), method |-> Method(tool), kwargs |-> Forward(tool, a),
     root |-> tools[Component(tool)]]

----------------------------------------------------------------------------
(* The tool implementations, as far as the handlers can see them *)

\* the values a tool method returns in the model
Results ==
    { PyDict({<<PyStr("total"), PyInt(1)>>, <<PyStr("news"), PyList(<<PyStr("a")>>)>>}),
      PyDict({<<PyStr("success"), PyBool(TRUE)>>, <<PyStr("news"), PyList(<<>>)>>}),
      PyDict({<<PyStr("pair"), PyTuple(<<PyStr("a"), PyInt(1)>>)>>}),
      PyDict({<<PyInt(1), PyStr("a")>>}),
      PyDict({<<PyStr("at"), PyObject("datetime")>>}) }

\* the tools whose date_range must hold YYYY-MM-DD dates
DateRangeTools == {"analyze_topic_trend", "analyze_data_insights", "analyze_sentiment",
                   "generate_summary_report", "search_news"}

IsoDates == {"2025-01-01", "2025-01-07", "2025-01-15"}

\* a date_range the tool accepts: none, or start and end both YYYY-MM-DD
DateRangeOk(d) == d = PyNone \/ (d.start \in IsoDates /\ d.end \in IsoDates)

\* the tool method's parameter validation: the error it raises before aggregating, or "none"
ToolValidate(call) ==
    IF call.method \in {Method(tool) : tool \in DateRangeTools} /\ ~DateRangeOk(call.kwargs.date_range)
    THEN "InvalidDateExpression"
    ELSE "none"

----------------------------------------------------------------------------
(* State *)

NoRun == [none |-> TRUE]
NoReq == [none |-> TRUE]
NoLast == [none |-> TRUE]
NotCalled == [kind |-> "notcalled"]

Transports == {"stdio", "http", "sse"}
Hosts == {"0.0.0.0"}
Ports == {3333}

\* transport.upper()
Upper(transport) ==
    CASE transport = "stdio" -> "STDIO"
      [] transport = "http" -> "HTTP"
      [] transport = "sse" -> "SSE"

Line(kind, text) == [kind |-> kind, text |-> text, host |-> "", port |-> 0, path |-> ""]
UrlLine(kind, host, port, path) == [kind |-> kind, text |-> "http://", host |-> host, port |-> port, path |-> path]

\* what run_server prints before it starts the transport
Banner(project_root, transport, host, port) ==
    <<Line("title", "TrendRadar MCP Server - FastMCP 2.0"),
      Line("Transport Mode", Upper(transport))>>
    \o (CASE transport = "stdio" ->
               <<Line("Protocol", "MCP over stdio (standard input/output)")>>
          [] transport = "http" ->
               <<UrlLine("Listen Address", host, port, ""),
                 UrlLine("HTTP Endpoint", host, port, "/mcp"),
                 Line("Protocol", "MCP over HTTP (production environment)")>>
          [] OTHER -> <<>>)
    \o <<Line("Project Directory",
              IF project_root # NoneRoot THEN project_root ELSE "Current directory"),
         Line("Registered Tools", "13")>>

\* the server process starts either at run_server (python -m mcp_server.server) or
\* with the module's `mcp` object served by a runner that imports it
ServerStart ==
    /\ phase \in {"init", "serving"}
    /\ runArgs = NoRun
    /\ runError = "none"
    /\ tools_instances = [c \in Components |-> Absent]
    /\ instCount = [c \in Components |-> 0]
    /\ mcpRuns = <<>>
    /\ stdout = <<>>
    /\ pending = {}
    /\ current = NoReq
    /\ batches = 0
    /\ cancelled = FALSE
    /\ afterCancel = 0
    /\ calls = <<>>
    /\ last = NoLast

\* the process is not manage.py: nothing of manage.py has run in it
OpsOff ==
    /\ main_pc = "off"
    /\ argv = <<>>
    /\ environ = <<>>
    /\ pid1 = ""
    /\ ran = <<>>
    /\ printed = <<>>
    /\ effects = <<>>
    /\ cron_expr = PyNone
    /\ cron_result = NotCalled

Init == ServerStart /\ OpsOff

----------------------------------------------------------------------------
(* run_server *)

\* run_server calling _get_tools() without its project_root
RunServerTools_default(reg, project_root) == get_tools(reg, NoneRoot)

\* "Initialize tool instances": the call of _get_tools at the top of run_server
RunServerTools(reg, project_root) == get_tools(reg, project_root)

StdioRun == [transport |-> "stdio", host |-> "", port |-> 0, path |-> ""]

\* mcp.run(transport='http') called without the host and port run_server was given
HttpRun_defaults(host, port) ==
    [transport |-> "http", host |-> "0.0.0.0", port |-> 3333, path |-> "/mcp"]

HttpRun(host, port) == [transport |-> "http", host |-> host, port |-> port, path |-> "/mcp"]

\* the if/elif with an else that starts the default transport instead of raising
Dispatch_fallback(transport, host, port) ==
    IF transport = "http"
    THEN [runs |-> <<HttpRun(host, port)>>, error |-> "none"]
    ELSE [runs |-> <<StdioRun>>, error |-> "none"]

\* "Run server based on transport mode": the mcp.run calls made, and the error raised
Dispatch(transport, host, port) ==
    IF transport = "stdio"
    THEN [runs |-> <<StdioRun>>, error |-> "none"]
    ELSE IF transport = "http"
         THEN [runs |-> <<HttpRun(host, port)>>, error |-> "none"]
         ELSE [runs |-> <<>>, error |-> "ValueError"]

run_server(project_root, transport, host, port) ==
    /\ phase = "init"
    /\ runArgs = NoRun
    /\ runArgs' = [project_root |-> project_root, transport |-> transport,
                   host |-> host, port |-> port]
    /\ LET got == RunServerTools(tools_instances, project_root)
       IN  /\ tools_instances' = got.instances
           /\ instCount' = Counted(instCount, got.constructed)
    /\ stdout' = stdout \o Banner(project_root, transport, host, port)
    /\ LET did == Dispatch(transport, host, port)
       IN  /\ mcpRuns' = mcpRuns \o did.runs
           /\ runError' = did.error
           /\ phase' = IF did.error = "none" THEN "serving" ELSE "failed"
    /\ UNCHANGED <<pending, loopVars, opsVars>>

----------------------------------------------------------------------------
(* The transport and the event loop *)

\* a client's request reaches the server
Submit(req) ==
    /\ phase = "serving"
    /\ req \notin pending
    /\ Cardinality(pending) < MaxPending
    /\ pending' = pending \cup {req}
    /\ UNCHANGED <<serverVars, registryVars, loopVars, opsVars>>

\* no handler holds the event loop
LoopFree == current = NoReq

\* the handler of req starts: tools = _get_tools(), then the tool method is called
HandlerStart(req) ==
    /\ phase = "serving"
    /\ LoopFree
    /\ req \in pending
    /\ pending' = pending \ {req}
    /\ LET got == get_tools(tools_instances, NoneRoot)
       IN  /\ tools_instances' = got.instances
           /\ instCount' = Counted(instCount, got.constructed)
           /\ calls' = <<ToolCall(req.tool, req.args, got.instances)>>
    /\ current' = req
    /\ batches' = 0
    /\ cancelled' = FALSE
    /\ afterCancel' = 0
    /\ last' = NoLast
    /\ UNCHANGED <<serverVars, opsVars>>

\* the tool call in progress accepted its parameters
Aggregating == current # NoReq /\ ToolValidate(calls[1]) = "none"

\* the tool method goes through one more batch of the corpus
ToolBatch ==
    /\ Aggregating
    /\ batches < MaxBatches
    /\ batches' = batches + 1
    /\ afterCancel' = IF cancelled THEN afterCancel + 1 ELSE afterCancel
    /\ UNCHANGED <<serverVars, registryVars, pending, current, cancelled, calls, last, opsVars>>

\* the caller cancels the request whose handler is running
Cancel ==
    /\ current # NoReq
    /\ ~cancelled
    /\ cancelled' = TRUE
    /\ UNCHANGED <<serverVars, registryVars, pending, current, batches, afterCancel, calls, last, opsVars>>

\* a handler that catches the tool's exception and returns it as a JSON error object
HandlerOutcome_swallow(toolOutcome) ==
    IF toolOutcome.kind = "raised"
    THEN json_dumps(PyDict({<<PyStr("error"), PyStr(toolOutcome.error)>>}))
    ELSE json_dumps(toolOutcome.value)

\* a handler that wraps the tool's result in an envelope of its own
HandlerOutcome_envelope(toolOutcome) ==
    IF toolOutcome.kind = "raised"
    THEN toolOutcome
    ELSE json_dumps(PyDict({<<PyStr("success"), PyBool(TRUE)>>, <<PyStr("data"), toolOutcome.value>>}))

\* the rest of the handler, after the tool method returned or raised:
\* `return json.dumps(result, ensure_ascii=False, indent=2)`, with no try/except around the call
HandlerOutcome(toolOutcome) ==
    IF toolOutcome.kind = "raised" THEN toolOutcome ELSE json_dumps(toolOutcome.value)

Finish(toolOutcome) ==
    /\ last' = [req |-> current, tool |-> toolOutcome, handler |-> HandlerOutcome(toolOutcome)]
    /\ current' = NoReq
    /\ batches' = 0
    /\ cancelled' = FALSE
    /\ afterCancel' = 0
    /\ UNCHANGED <<serverVars, registryVars, pending, calls, opsVars>>

\* the tool method returns its result and the handler returns
ToolReturn(result) ==
    /\ Aggregating
    /\ Finish(Returned(result))

\* the tool method raises: its parameter validation failed, or the corpus store or
\* the crawler is unavailable
ToolRaise ==
    /\ current # NoReq
    /\ Finish(Raised(IF ToolValidate(calls[1]) # "none"
                     THEN ToolValidate(calls[1])
                     ELSE "UpstreamUnavailable"))

Next ==
    \/ \E project_root \in Roots, transport \in Transports, host \in Hosts, port \in Ports :
          run_server(project_root, transport, host, port)
    \/ \E req \in Requests : Submit(req)
    \/ \E req \in Requests : HandlerStart(req)
    \/ ToolBatch
    \/ Cancel
    \/ \E result \in Results : ToolReturn(result)
    \/ ToolRaise

Spec == Init /\ [][Next]_vars

----------------------------------------------------------------------------
(* The start of the server alone: python -m mcp_server.server with any --host and --port *)

RunHosts == {"0.0.0.0", "127.0.0.1", "localhost", "::1"}
RunPorts == {80, 3333, 8000, 8080, 65535}

InitRunServer == ServerStart /\ phase = "init" /\ OpsOff

NextRunServer ==
    \E project_root \in Roots, transport \in Transports, host \in RunHosts, port \in RunPorts :
        run_server(project_root, transport, host, port)

SpecRunServer == InitRunServer /\ [][NextRunServer]_vars

----------------------------------------------------------------------------
(* manage.py: parse_cron_schedule *)

\* In this part a str is the sequence of its characters; a fixed text of the code
\* is written as one element of the sequence.

\* most fields an expression given to parse_cron_schedule has
MaxFields == 6

Whitespace == {" ", "\t"}
NotSetText == <<"N", "o", "t", " ", "S", "e", "t">>

\* str.strip()
RECURSIVE LStrip(_)
LStrip(s) == IF s # <<>> /\ Head(s) \in Whitespace THEN LStrip(Tail(s)) ELSE s
RECURSIVE RStrip(_)
RStrip(s) ==
    IF s # <<>> /\ s[Len(s)] \in Whitespace THEN RStrip(SubSeq(s, 1, Len(s) - 1)) ELSE s
Strip(s) == LStrip(RStrip(s))

\* str.split() with no separator: the maximal runs of characters that are not whitespace
WordEnd(s) ==
    IF \E i \in DOMAIN s : s[i] \in Whitespace
    THEN (CHOOSE i \in DOMAIN s : s[i] \in Whitespace /\ \A j \in 1..(i - 1) : s[j] \notin Whitespace) - 1
    ELSE Len(s)
RECURSIVE Split(_)
Split(s) ==
    LET t == LStrip(s)
    IN  IF t = <<>>
        THEN <<>>
        ELSE <<SubSeq(t, 1, WordEnd(t))>> \o Split(SubSeq(t, WordEnd(t) + 1, Len(t)))

\* field.startswith("*/") and field[2:]
StartsWithStep(field) == Len(field) >= 2 /\ field[1] = "*" /\ field[2] = "/"
Interval(field) == SubSeq(field, 3, Len(field))

\* str.zfill(2)
Zfill2(s) ==
    IF Len(s) >= 2 THEN s
    ELSE IF s = <<>> THEN <<"0", "0">>
    ELSE IF s[1] \in {"+", "-"} THEN s \o <<"0">>
    ELSE <<"0">> \o s

\* str(x) inside an f-string
Str(x) ==
    CASE x.t = "str" -> x.v
      [] x.t = "int" -> <<IntStr(x.v)>>
      [] x.t = "none" -> <<"None">>

\* `not cron_expr`
Falsy(x) ==
    \/ x.t = "none"
    \/ x.t = "str" /\ x.v = <<>>
    \/ x.t = "int" /\ x.v = 0

minute_desc(minute) ==
    IF minute = <<"*">> THEN <<"Every minute">>
    ELSE IF StartsWithStep(minute) THEN <<"Every ">> \o Interval(minute) \o <<" minutes">>
    ELSE <<"At minute ">> \o minute

hour_desc(hour) ==
    IF hour = <<"*">> THEN <<"Every hour">>
    ELSE IF StartsWithStep(hour) THEN <<"Every ">> \o Interval(hour) \o <<" hours">>
    ELSE <<"At hour ">> \o hour

day_desc(day) ==
    IF day = <<"*">> THEN <<"Every day">>
    ELSE IF StartsWithStep(day) THEN <<"Every ">> \o Interval(day) \o <<" days">>
    ELSE <<"On day ">> \o day \o <<" of month">>

month_desc(month) ==
    IF month = <<"*">> THEN <<"Every month">> ELSE <<"In month ">> \o month

\* weekday_names.get(weekday, weekday)
weekday_names(weekday) ==
    CASE weekday = <<"0">> -> <<"Sunday">>
      [] weekday = <<"1">> -> <<"Monday">>
      [] weekday = <<"2">> -> <<"Tuesday">>
      [] weekday = <<"3">> -> <<"Wednesday">>
      [] weekday = <<"4">> -> <<"Thursday">>
      [] weekday = <<"5">> -> <<"Friday">>
      [] weekday = <<"6">> -> <<"Saturday">>
      [] weekday = <<"7">> -> <<"Sunday">>
      [] OTHER -> weekday

weekday_desc(weekday) ==
    IF weekday = <<"*">> THEN <<>> ELSE <<"on ">> \o weekday_names(weekday)

\* " ".join(parts)
RECURSIVE Join(_)
Join(parts) ==
    IF parts = <<>> THEN <<>>
    ELSE IF Len(parts) = 1 THEN parts[1]
    ELSE parts[1] \o <<" ">> \o Join(Tail(parts))

\* the list comprehension that drops the empty and the "Every ..." descriptions
desc_parts(minute, hour, day, month, weekday) ==
    SelectSeq(<<month_desc(month), day_desc(day), weekday_desc(weekday),
                hour_desc(hour), minute_desc(minute)>>,
              LAMBDA part : /\ part # <<>>
                            /\ part # <<"Every month">>
                            /\ part # <<"Every day">>
                            /\ part # <<"Every hour">>)

\* "Combine description"
Combine(minute, hour, day, month, weekday, cron_text) ==
    IF /\ StartsWithStep(minute) /\ hour = <<"*">> /\ day = <<"*">>
       /\ month = <<"*">> /\ weekday = <<"*">>
    THEN <<"Runs every ">> \o Interval(minute) \o <<" minutes">>
    ELSE IF /\ hour # <<"*">> /\ minute # <<"*">> /\ day = <<"*">>
            /\ month = <<"*">> /\ weekday = <<"*">>
    THEN <<"Runs daily at ">> \o hour \o <<":">> \o Zfill2(minute)
    ELSE IF weekday # <<"*">> /\ day = <<"*">>
    THEN <<"Runs ">> \o weekday_desc(weekday) \o <<" at ">> \o hour \o <<":">> \o Zfill2(minute)
    ELSE IF desc_parts(minute, hour, day, month, weekday) # <<>>
    THEN <<"Runs ">> \o Join(desc_parts(minute, hour, day, month, weekday))
    ELSE <<"Complex expression: ">> \o cron_text

\* a field count test that lets expressions of more than five fields through
WrongFieldCount_fewer(parts) == Len(parts) < 5

\* `if len(parts) != 5`
WrongFieldCount(parts) == Len(parts) # 5

\* the body of the try statement: what it returns, or the exception it raises
ParseBody(cron_value) ==
    IF cron_value.t # "str"
    THEN Raised("AttributeError")
    ELSE LET parts == Split(Strip(cron_value.v))
         IN  IF WrongFieldCount(parts)
             THEN Returned(<<"Original expression: ">> \o cron_value.v)
             ELSE IF Len(parts) # 5
             THEN Raised("ValueError")
             ELSE Returned(Combine(parts[1], parts[2], parts[3], parts[4], parts[5],
                                   cron_value.v))

parse_cron_schedule(cron_value) ==
    IF Falsy(cron_value) \/ (cron_value.t = "str" /\ cron_value.v = NotSetText)
    THEN Returned(<<"Not Set">>)
    ELSE IF ParseBody(cron_value).kind = "raised"
    THEN Returned(<<"Parse failed: ">> \o Str(cron_value))
    ELSE ParseBody(cron_value)

\* the fields the expressions are made of
FieldValues == {<<"*">>, <<"*", "/", "5">>, <<"9">>, <<"1">>}

\* an expression with the given fields: a single space between them, or tabs and
\* spaces between and around them
RECURSIVE Laid(_, _)
Laid(fields, sep) ==
    IF fields = <<>> THEN <<>>
    ELSE IF Len(fields) = 1 THEN fields[1]
    ELSE fields[1] \o sep \o Laid(Tail(fields), sep)
Plain(fields) == Laid(fields, <<" ">>)
Padded(fields) == <<" ">> \o Laid(fields, <<"\t", " ">>) \o <<" ">>

FieldLists == UNION {[1..n -> FieldValues] : n \in 0..MaxFields}
CronTexts == {Plain(fs) : fs \in FieldLists} \cup {Padded(fs) : fs \in FieldLists} \cup {NotSetText}
CronValues == {PyNone, PyInt(0), PyInt(5)} \cup {PyStr(text) : text \in CronTexts}

InitCron ==
    /\ ServerStart /\ phase = "init"
    /\ main_pc = "off" /\ argv = <<>> /\ environ = <<>> /\ pid1 = ""
    /\ ran = <<>> /\ printed = <<>> /\ effects = <<>>
    /\ cron_expr \in CronValues
    /\ cron_result = NotCalled

\* one call parse_cron_schedule(cron_expr)
ParseCronSchedule ==
    /\ main_pc = "off"
    /\ cron_result = NotCalled
    /\ cron_result' = parse_cron_schedule(cron_expr)
    /\ UNCHANGED <<serverVars, registryVars, pending, loopVars, manageVars, cron_expr>>

NextCron == ParseCronSchedule

SpecCron == InitCron /\ [][NextCron]_vars

----------------------------------------------------------------------------
(* manage.py: what the command functions read and run *)

Open(path) == [kind |-> "open", args |-> <<path, "r">>, cwd |-> ""]
Exists(path) == [kind |-> "exists", args |-> <<path>>, cwd |-> ""]
Iterdir(path) == [kind |-> "iterdir", args |-> <<path>>, cwd |-> ""]
SubprocessRun(args, cwd) == [kind |-> "subprocess.run", args |-> args, cwd |-> cwd]

\* how a child process ends: exit code 0, another exit code, it cannot be started,
\* or Ctrl+C arrives while it runs
Outcomes == {"zero", "nonzero", "oserror", "interrupt"}

\* what a command function did: the lines it printed, its effects, and the exception
\* that left it ("none" when it returned)
Did(lines, effs, exc) == [printed |-> lines, effects |-> effs, raised |-> exc]

\* /proc/1/cmdline with its NUL bytes replaced by spaces, or that it cannot be read
SupercronicCmdline == "/usr/local/bin/supercronic -passthrough-logs /tmp/crontab"
Unreadable == "<unreadable>"
Pid1s == {SupercronicCmdline, "/bin/sh /entrypoint.sh", Unreadable}
\* "supercronic" in pid1_cmdline.lower()
IsSupercronic(cmdline) == cmdline = SupercronicCmdline

\* KeyboardInterrupt is not an Exception: manual_run's handler does not catch it
manual_run(outcome) ==
    Did(<<<<"Manually running crawler...">>>>
          \o (CASE outcome = "zero" -> <<<<"Execution completed">>>>
                [] outcome = "nonzero" -> <<<<"Execution failed, exit code: ", "1">>>>
                [] outcome = "oserror" -> <<<<"Execution error: ", "OSError">>>>
                [] outcome = "interrupt" -> <<>>),
        <<SubprocessRun(<<"python", "main.py">>, "/app")>>,
        IF outcome = "interrupt" THEN "KeyboardInterrupt" ELSE "none")

----------------------------------------------------------------------------
(* manage.py: show_config *)

CRON_SCHEDULE ==
    <<"C", "R", "O", "N", "_", "S", "C", "H", "E", "D", "U", "L", "E">>
RUN_MODE ==
    <<"R", "U", "N", "_", "M", "O", "D", "E">>
IMMEDIATE_RUN ==
    <<"I", "M", "M", "E", "D", "I", "A", "T", "E", "_", "R", "U", "N">>
FEISHU_WEBHOOK_URL ==
    <<"F", "E", "I", "S", "H", "U", "_", "W", "E", "B", "H", "O", "O", "K", "_", "U", "R", "L">>
DINGTALK_WEBHOOK_URL ==
    <<"D", "I", "N", "G", "T", "A", "L", "K", "_", "W", "E", "B", "H", "O", "O", "K", "_", "U", "R", "L">>
WEWORK_WEBHOOK_URL ==
    <<"W", "E", "W", "O", "R", "K", "_", "W", "E", "B", "H", "O", "O", "K", "_", "U", "R", "L">>
TELEGRAM_BOT_TOKEN ==
    <<"T", "E", "L", "E", "G", "R", "A", "M", "_", "B", "O", "T", "_", "T", "O", "K", "E", "N">>
TELEGRAM_CHAT_ID ==
    <<"T", "E", "L", "E", "G", "R", "A", "M", "_", "C", "H", "A", "T", "_", "I", "D">>
CONFIG_PATH ==
    <<"C", "O", "N", "F", "I", "G", "_", "P", "A", "T", "H">>
FREQUENCY_WORDS_PATH ==
    <<"F", "R", "E", "Q", "U", "E", "N", "C", "Y", "_", "W", "O", "R", "D", "S", "_", "P", "A", "T", "H">>
\* a variable that has a sensitive name and is not in the list show_config prints
API_KEY ==
    <<"A", "P", "I", "_", "K", "E", "Y">>

env_vars ==
    <<CRON_SCHEDULE, RUN_MODE, IMMEDIATE_RUN, FEISHU_WEBHOOK_URL, DINGTALK_WEBHOOK_URL,
      WEWORK_WEBHOOK_URL, TELEGRAM_BOT_TOKEN, TELEGRAM_CHAT_ID, CONFIG_PATH,
      FREQUENCY_WORDS_PATH>>

EnvNames == {env_vars[i] : i \in DOMAIN env_vars} \cup {API_KEY}

\* the variable is not in os.environ
Unset == <<"<unset>">>

\* os.environ.get(var, default)
environ_get(env, var, default) == IF env[var] = Unset THEN default ELSE env[var]

\* `word in text` for two strs
Contains(word, text) ==
    \E i \in 0..(Len(text) - Len(word)) : SubSeq(text, i + 1, i + Len(word)) = word

sensitive_words ==
    <<<<"W", "E", "B", "H", "O", "O", "K">>, <<"T", "O", "K", "E", "N">>, <<"K", "E", "Y">>>>

\* any(sensitive in var for sensitive in ["WEBHOOK", "TOKEN", "KEY"])
IsSensitive(var) == \E i \in DOMAIN sensitive_words : Contains(sensitive_words[i], var)

\* value[:10] + "***" if len(value) > 10 else "***"
masked_value(value) ==
    IF Len(value) > 10 THEN SubSeq(value, 1, 10) \o <<"*", "*", "*">> ELSE <<"*", "*", "*">>

\* what show_config prints after the name of a variable
Shown(var, value) ==
    IF IsSensitive(var)
    THEN IF value # <<>> /\ value # NotSetText THEN masked_value(value) ELSE value
    ELSE value

\* print(f"  {var}: {value}")
ConfigLine(var, shown) == <<"  ">> \o var \o <<": ">> \o shown

show_config(env, exists) ==
    Did(<<<<"Current Configuration:">>>>
          \o [i \in DOMAIN env_vars |->
                ConfigLine(env_vars[i], Shown(env_vars[i], environ_get(env, env_vars[i], NotSetText)))]
          \o (IF exists
              THEN <<<<"  Crontab Content:">>, <<"    ", "<content of /tmp/crontab>">>>>
              ELSE <<<<"  Crontab file does not exist">>>>),
        <<Exists("/tmp/crontab")>> \o (IF exists THEN <<Open("/tmp/crontab")>> ELSE <<>>),
        "none")

----------------------------------------------------------------------------
(* manage.py: the other command functions *)

\* the lines about PID 1 at the top of show_status
StatusPid1(cmdline) ==
    IF cmdline = Unreadable
    THEN <<<<"  Unable to read PID 1 info: ", "OSError">>>>
    ELSE <<<<"  PID 1 Process: ", cmdline>>>>
         \o (IF IsSupercronic(cmdline)
             THEN <<<<"  supercronic correctly running as PID 1">>>>
             ELSE <<<<"  PID 1 is not supercronic">>, <<"  Actual PID 1: ", cmdline>>>>)

\* the report of show_status; the file checks, the uptime and the closing advice are
\* one line each here
show_status(env, cmdline, exists) ==
    Did(<<<<"Container Status:">>>>
          \o StatusPid1(cmdline)
          \o <<<<"  Runtime Configuration:">>,
               <<"    CRON_SCHEDULE: ">> \o environ_get(env, CRON_SCHEDULE, NotSetText),
               <<"    Execution Frequency: ">>
                   \o parse_cron_schedule(PyStr(environ_get(env, CRON_SCHEDULE, NotSetText))).value,
               <<"    RUN_MODE: ">> \o environ_get(env, RUN_MODE, NotSetText),
               <<"    IMMEDIATE_RUN: ">> \o environ_get(env, IMMEDIATE_RUN, NotSetText),
               <<"  Configuration Files:", IF exists THEN "present" ELSE "missing">>,
               <<"  Key Files Check:", IF exists THEN "exists" ELSE "missing">>,
               <<"  Container Time Information:">>,
               <<"  Status Summary:",
                 IF cmdline # Unreadable /\ IsSupercronic(cmdline)
                 THEN "supercronic correctly running as PID 1"
                 ELSE "supercronic status abnormal">>,
               <<"  Runtime Status Check:">>>>,
        <<Open("/proc/1/cmdline"),
          Exists("/app/config/config.yaml"),
          Exists("/app/config/frequency_words.txt"),
          Exists("/usr/local/bin/supercronic-linux-amd64"),
          Exists("/usr/local/bin/supercronic"),
          Exists("/tmp/crontab")>>
          \o (IF exists THEN <<Open("/tmp/crontab")>> ELSE <<>>)
          \o <<Exists("/entrypoint.sh"), Open("/proc/1/stat"), Open("/proc/stat")>>,
        "none")

\* the listing of show_files; the files of the dated directories are one line here
show_files(exists) ==
    IF exists
    THEN Did(<<<<"Output Files:">>, <<"  ", "<files of the last 2 days>">>>>,
             <<Exists("/app/output"), Iterdir("/app/output")>>,
             "none")
    ELSE Did(<<<<"Output Files:">>, <<"  Output directory does not exist">>>>,
             <<Exists("/app/output")>>,
             "none")

\* show_logs catches both KeyboardInterrupt and Exception; check=True turns an exit
\* code other than 0 into CalledProcessError
show_logs(exists, outcome) ==
    IF exists
    THEN Did(<<<<"Real-time logs (Press Ctrl+C to exit):">>,
               <<"Note: This will show PID 1 process output">>,
               <<"Attempting to read: ", "/proc/1/fd/1">>>>
               \o (CASE outcome = "zero" -> <<>>
                     [] outcome = "interrupt" -> <<<<"Exiting log viewer">>>>
                     [] OTHER -> <<<<"Failed to view logs: ", outcome>>,
                                   <<"Recommend using: docker logs trend-radar">>>>),
             <<Exists("/proc/1/fd/1"), SubprocessRun(<<"tail", "-f", "/proc/1/fd/1">>, "")>>,
             "none")
    ELSE Did(<<<<"Real-time logs (Press Ctrl+C to exit):">>,
               <<"Note: This will show PID 1 process output">>,
               <<"Cannot find standard log files, recommend using: docker logs trend-radar">>>>,
             <<Exists("/proc/1/fd/1"), Exists("/proc/1/fd/2")>>,
             "none")

\* the lines restart_supercronic prints
RestartLines(cmdline) ==
    <<<<"Restarting supercronic...">>,
      <<"Note: supercronic is PID 1, cannot be restarted directly">>>>
    \o (IF cmdline = Unreadable
        THEN <<<<"  Unable to check PID 1: ", "OSError">>,
               <<"  Recommend restarting container: docker restart trend-radar">>>>
        ELSE <<<<"  Current PID 1: ", cmdline>>>>
             \o (IF IsSupercronic(cmdline)
                 THEN <<<<"  PID 1 is supercronic">>,
                        <<"  To restart supercronic, you need to restart the entire container:">>>>
                 ELSE <<<<"  PID 1 is not supercronic, this is an abnormal state">>,
                        <<"  Recommend restarting container to fix the issue:">>>>)
             \o <<<<"    docker restart trend-radar">>>>)

\* a restart_supercronic that sends SIGTERM to supercronic
restart_supercronic_signal(cmdline) ==
    Did(RestartLines(cmdline),
        <<Open("/proc/1/cmdline"), SubprocessRun(<<"kill", "-TERM", "1">>, "")>>,
        "none")

restart_supercronic(cmdline) ==
    Did(RestartLines(cmdline), <<Open("/proc/1/cmdline")>>, "none")

\* the "Command List" of the help text: command and description
CommandList ==
    <<<<"  ", "run", " - ", "Manually run crawler once">>,
      <<"  ", "status", " - ", "Display container running status">>,
      <<"  ", "config", " - ", "Display current configuration">>,
      <<"  ", "files", " - ", "Display output files">>,
      <<"  ", "logs", " - ", "View real-time logs">>,
      <<"  ", "restart", " - ", "Restart instructions">>,
      <<"  ", "help", " - ", "Display this help">>>>

help_text ==
    <<<<"TrendRadar Container Management Tool">>, <<"Command List:">>>>
    \o CommandList
    \o <<<<"Usage Examples:">>, <<"Common Operation Guide:">>>>

show_help == Did(help_text, <<>>, "none")

----------------------------------------------------------------------------
(* manage.py: main *)

\* a commands dict without its "restart" entry
commands_without_restart ==
    [run |-> "manual_run", status |-> "show_status", config |-> "show_config",
     files |-> "show_files", logs |-> "show_logs", help |-> "show_help"]

commands ==
    [run |-> "manual_run", status |-> "show_status", config |-> "show_config",
     files |-> "show_files", logs |-> "show_logs", restart |-> "restart_supercronic",
     help |-> "show_help"]

\* the call of a command function
Call(function, env, cmdline, exists, outcome) ==
    CASE function = "manual_run" -> manual_run(outcome)
      [] function = "show_status" -> show_status(env, cmdline, exists)
      [] function = "show_config" -> show_config(env, exists)
      [] function = "show_files" -> show_files(exists)
      [] function = "show_logs" -> show_logs(exists, outcome)
      [] function = "restart_supercronic" -> restart_supercronic(cmdline)
      [] function = "show_help" -> show_help

\* what main prints when the command function did not return
Caught(exc) ==
    CASE exc = "none" -> <<>>
      [] exc = "KeyboardInterrupt" -> <<<<"Operation cancelled">>>>
      [] OTHER -> <<<<"Execution error: ", exc>>>>

\* values of the variables show_config and show_status print
Token10 == <<"1", "2", "3", "4", "5", "6", "7", "8", "9", "0">>
EnvValues ==
    {<<>>, NotSetText, <<"o", "n">>, Token10, Token10 \o <<"a">>, Token10 \o <<"b">>,
     Plain(<<<<"*", "/", "5">>, <<"*">>, <<"*">>, <<"*">>, <<"*">>>>)}

\* os.environ: nothing set, one variable set, or every variable set
Environs ==
    {[n \in EnvNames |-> Unset], [n \in EnvNames |-> Token10 \o <<"a">>]}
    \cup {[n \in EnvNames |-> IF n = var THEN value ELSE Unset] :
              var \in EnvNames, value \in EnvValues}

\* sys.argv[1:]
Words == {"run", "status", "config", "files", "logs", "restart", "help", "stop", "RUN", ""}
Argvs == {<<>>} \cup {<<w>> : w \in Words} \cup {<<w, "now">> : w \in Words}

InitManage ==
    /\ ServerStart /\ phase = "init"
    /\ main_pc = "start"
    /\ argv \in Argvs
    /\ environ \in Environs
    /\ pid1 \in Pid1s
    /\ ran = <<>>
    /\ printed = <<>>
    /\ effects = <<>>
    /\ cron_expr = PyNone
    /\ cron_result = NotCalled

\* python manage.py ...: `exists` tells whether the files the command looks for are
\* there, `outcome` how the child process it starts ends
main(exists, outcome) ==
    /\ main_pc = "start"
    /\ main_pc' = "done"
    /\ IF Len(argv) < 1
       THEN /\ ran' = ran \o <<"show_help">>
            /\ printed' = printed \o show_help.printed
            /\ effects' = effects \o show_help.effects
       ELSE IF argv[1] \in DOMAIN commands
       THEN LET did == Call(commands[argv[1]], environ, pid1, exists, outcome)
            IN  /\ ran' = ran \o <<commands[argv[1]]>>
                /\ printed' = printed \o did.printed \o Caught(did.raised)
                /\ effects' = effects \o did.effects
       ELSE /\ ran' = ran
            /\ printed' = printed \o <<<<"Unknown command: ", argv[1]>>,
                                       <<"Run 'python manage.py help' to see available commands">>>>
            /\ effects' = effects
    /\ UNCHANGED <<serverVars, registryVars, pending, loopVars, argv, environ, pid1, cronVars>>

NextManage == \E exists \in BOOLEAN, outcome \in Outcomes : main(exists, outcome)

SpecManage == InitManage /\ [][NextManage]_vars

----------------------------------------------------------------------------
(* Properties *)

\* the request whose handler is running, or else the one whose handler finished last
Handled == IF current # NoReq THEN current ELSE last.req
SomeHandled == current # NoReq \/ last # NoLast

\* C1: a query for already-persisted data never has to wait for another request in
\* progress: while some handler (trigger_crawl or any other) is still running, the
\* handler of a submitted get_news_by_date, search_news or get_latest_news can start.
C1_QueryNeverWaits ==
    \A q \in pending :
        (q.tool \in {"get_news_by_date", "search_news", "get_latest_news"} /\ current # NoReq)
            => ENABLED HandlerStart(q)

\* C2: each of the five tool classes is instantiated at most once, and once the
\* registry holds instances no step adds, removes or replaces one, whatever
\* project_root later calls of _get_tools pass.
C2_ToolInstancesSingleton ==
    [][/\ \A c \in Components : instCount'[c] <= 1
       /\ ~Empty(tools_instances) => tools_instances' = tools_instances]_vars

\* C2 witness: after run_server built the instances with a project root, a handler
\* (which calls _get_tools() with the default root) has served a request.
C2_Witness ==
    /\ runArgs # NoRun
    /\ runArgs.project_root # NoneRoot
    /\ last # NoLast
    /\ \A c \in Components : instCount[c] = 1 /\ tools_instances[c] = runArgs.project_root

\* C3: every request served after run_server(project_root=P) is handled by an
\* instance constructed with P.
C3_ServedWithRunServerRoot ==
    runArgs # NoRun => \A i \in 1..Len(calls) : calls[i].root = runArgs.project_root

\* C3 witness: a request was served after run_server was given a project root.
C3_Witness ==
    /\ runArgs # NoRun
    /\ runArgs.project_root = "/srv/trendradar"
    /\ last # NoLast
    /\ Len(calls) = 1

\* C4: for a transport other than 'stdio' and 'http' run_server raises ValueError
\* and mcp.run is never called.
C4_UnsupportedTransportRaises ==
    (runArgs # NoRun /\ runArgs.transport \notin {"stdio", "http"})
        => /\ runError = "ValueError"
           /\ mcpRuns = <<>>
           /\ phase = "failed"

\* C4 witness: run_server was called with transport 'sse'.
C4_Witness == runArgs # NoRun /\ runArgs.transport = "sse" /\ phase = "failed"

\* the documented maximum of limit (hundredths for thresholds), or -1 when none is documented
DocumentedLimitMax(tool) ==
    CASE tool \in {"get_latest_news", "get_news_by_date", "search_news"} -> 1000
      [] tool \in {"analyze_sentiment", "find_similar_news", "search_related_news_history"} -> 100
      [] OTHER -> 0 - 1

SimilarityThresholdTools == {"find_similar_news", "search_news", "search_related_news_history"}

\* C5: a limit above its documented maximum, or a similarity threshold outside
\* [0,1], is never forwarded unchanged to the tool implementation.
C5_BoundsEnforced ==
    (SomeHandled /\ calls # <<>>) =>
        LET tool == Handled.tool
            kwargs == calls[1].kwargs
        IN  /\ DocumentedLimitMax(tool) # 0 - 1 => kwargs.limit <= DocumentedLimitMax(tool)
            /\ tool \in SimilarityThresholdTools => (0 <= kwargs.threshold /\ kwargs.threshold <= 100)

NaturalLanguageDates == {"today", "yesterday"}

\* the request passes a date_range whose start or end is a natural-language expression
NlDateRange(req) ==
    /\ req.tool \in {"analyze_topic_trend", "analyze_data_insights", "analyze_sentiment",
                     "generate_summary_report", "search_news"}
    /\ req.args.date_range # PyNone
    /\ (req.args.date_range.start \in NaturalLanguageDates
        \/ req.args.date_range.end \in NaturalLanguageDates)

ClaimedComponent(tool) ==
    CASE tool \in {"get_latest_news", "get_trending_topics", "get_news_by_date"} -> "data"
      [] tool \in {"analyze_topic_trend", "analyze_data_insights", "analyze_sentiment",
                   "find_similar_news", "generate_summary_report"} -> "analytics"
      [] tool \in {"search_news", "search_related_news_history"} -> "search"
      [] tool = "get_current_config" -> "config"
      [] tool \in {"get_system_status", "trigger_crawl"} -> "system"

\* C7: every handled request results in exactly one method call, on the component
\* the claim names for its tool, with the caller's parameters unchanged.
C7_RoutedOnceUnchanged ==
    SomeHandled =>
        /\ Len(calls) = 1
        /\ calls[1].component = ClaimedComponent(Handled.tool)
        /\ calls[1].kwargs = Handled.args

\* C7 witness: a search_news request with non-default parameters was handled to the end.
C7_Witness ==
    /\ last # NoLast
    /\ last.req.tool = "search_news"
    /\ last.req.args.limit = 1001
    /\ last.handler.kind = "returned"
    /\ calls # <<>>

\* C8: when the tool implementation raises, the handler raises the same error and
\* returns no JSON result.
C8_ToolFailureSurfaced ==
    (last # NoLast /\ last.tool.kind = "raised") => last.handler = last.tool

\* C8 witness: trigger_crawl's tool method raised because the crawler was unavailable.
C8_Witness ==
    /\ last # NoLast
    /\ last.req.tool = "trigger_crawl"
    /\ last.tool = Raised("UpstreamUnavailable")

\* C9: after the caller cancels, the handler stops at the next batch-iteration
\* boundary: it finishes at most the batch it is in.
C9_CancelHonoured == cancelled => afterCancel <= 1

\* a value built of dicts with string keys, lists, strings, integers, booleans and None
RECURSIVE JsonNative(_)
JsonNative(v) ==
    CASE v.t \in {"none", "bool", "int", "str"} -> TRUE
      [] v.t = "list" -> \A i \in 1..Len(v.items) : JsonNative(v.items[i])
      [] v.t = "dict" -> \A p \in v.pairs : p[1].t = "str" /\ JsonNative(p[2])
      [] OTHER -> FALSE

\* the value with every tuple read as a list and every dict key as its string form
RECURSIVE AsJson(_)
AsJson(v) ==
    CASE v.t \in {"list", "tuple"} -> PyList([i \in 1..Len(v.items) |-> AsJson(v.items[i])])
      [] v.t = "dict" ->
           PyDict({<<IF p[1].t = "int" THEN PyStr(IntStr(p[1].v)) ELSE p[1], AsJson(p[2])>> : p \in v.pairs})
      [] OTHER -> v

AnnouncedEndpoints == {stdout[i] : i \in {j \in DOMAIN stdout : stdout[j].kind = "HTTP Endpoint"}}

\* C11: for a supported transport run_server starts the MCP server exactly once. In
\* stdio mode the one start is the stdio transport, with no host, port or path to
\* listen on. In http mode the one start listens on the host and port run_server
\* was given, at path /mcp, and the startup banner announces exactly that endpoint.
C11_StartsOnceOnAnnouncedEndpoint ==
    (runArgs # NoRun /\ runArgs.transport \in {"stdio", "http"}) =>
        /\ Len(mcpRuns) = 1
        /\ runArgs.transport = "stdio" =>
              /\ mcpRuns[1].transport = "stdio"
              /\ mcpRuns[1].host = "" /\ mcpRuns[1].port = 0 /\ mcpRuns[1].path = ""
              /\ AnnouncedEndpoints = {}
        /\ runArgs.transport = "http" =>
              /\ mcpRuns[1].transport = "http"
              /\ mcpRuns[1].host = runArgs.host
              /\ mcpRuns[1].port = runArgs.port
              /\ mcpRuns[1].path = "/mcp"
              /\ AnnouncedEndpoints =
                     {UrlLine("HTTP Endpoint", mcpRuns[1].host, mcpRuns[1].port, mcpRuns[1].path)}

\* run_server has started the http transport on a host and port that are not the defaults
C11_Witness ==
    /\ phase = "serving"
    /\ runArgs # NoRun
    /\ runArgs.transport = "http"
    /\ runArgs.host = "127.0.0.1"
    /\ runArgs.port = 8080
    /\ Len(mcpRuns) = 1

\* C16: a run_server call with an unsupported transport fails with no partial effect:
\* no tool instance has been created and nothing has been printed when it raises.
C16_FailedStartLeavesNoEffect ==
    (runArgs # NoRun /\ runError # "none") =>
        /\ Empty(tools_instances)
        /\ \A c \in Components : instCount[c] = 0
        /\ stdout = <<>>

\* the number of whitespace-separated fields of a text
FieldCount(text) ==
    Cardinality({i \in DOMAIN text :
                    text[i] \notin Whitespace /\ (i = 1 \/ text[i - 1] \in Whitespace)})

\* C15: parse_cron_schedule is total: for every argument it returns a description
\* and never raises; the description is "Not Set" when the expression is missing
\* (None or empty) or is "Not Set", and "Original expression: <expr>" when the
\* expression does not consist of exactly five whitespace-separated fields.
C15_ParseCronTotal ==
    cron_result # NotCalled =>
        /\ cron_result.kind = "returned"
        /\ cron_result.value # <<>>
        /\ (cron_expr.t = "none" \/ (cron_expr.t = "str" /\ cron_expr.v \in {<<>>, NotSetText}))
              => cron_result.value = <<"Not Set">>
        /\ (cron_expr.t = "str" /\ cron_expr.v \notin {<<>>, NotSetText}
                /\ FieldCount(cron_expr.v) # 5)
              => cron_result.value = <<"Original expression: ">> \o cron_expr.v

\* parse_cron_schedule has been called with an expression of six fields
C15_Witness ==
    /\ cron_result # NotCalled
    /\ cron_expr.t = "str"
    /\ FieldCount(cron_expr.v) = 6
    /\ cron_result.kind = "returned"

\* the commands the help text lists
HelpCommands == {CommandList[i][2] : i \in DOMAIN CommandList}

\* the command function the claim pairs with each command
ClaimedHandler ==
    [run |-> "manual_run", status |-> "show_status", config |-> "show_config",
     files |-> "show_files", logs |-> "show_logs", restart |-> "restart_supercronic",
     help |-> "show_help"]

\* C12: with no command argument main shows the help text and runs nothing else;
\* with one of run, status, config, files, logs, restart, help it runs that
\* command's function exactly once and no other; with any other command it runs no
\* function and reports the command as unknown. The commands main accepts are the
\* commands the help text lists.
C12_DispatchRunsExactlyTheCommand ==
    /\ DOMAIN commands = HelpCommands
    /\ main_pc = "done" =>
          /\ argv = <<>> =>
                /\ ran = <<"show_help">>
                /\ printed = help_text
                /\ effects = <<>>
          /\ (argv # <<>> /\ argv[1] \in DOMAIN ClaimedHandler) =>
                ran = <<ClaimedHandler[argv[1]]>>
          /\ (argv # <<>> /\ argv[1] \notin DOMAIN ClaimedHandler) =>
                /\ ran = <<>>
                /\ effects = <<>>
                /\ printed[1] = <<"Unknown command: ", argv[1]>>

\* main has dispatched the restart command
C12_Witness ==
    /\ main_pc = "done"
    /\ argv # <<>>
    /\ argv[1] = "restart"
    /\ ran = <<"restart_supercronic">>

\* the crawler: python main.py in /app
Crawler == SubprocessRun(<<"python", "main.py">>, "/app")

\* the child processes the invocation has run
Started == SelectSeq(effects, LAMBDA e : e.kind = "subprocess.run")

\* the effect only looks at the file system
ReadOnly(e) == e.kind \in {"exists", "iterdir"} \/ (e.kind = "open" /\ e.args[2] = "r")

ConfigLinesOf(var) ==
    {printed[i] : i \in {j \in DOMAIN printed :
                            /\ Len(printed[j]) >= Len(var) + 2
                            /\ SubSeq(printed[j], 1, Len(var) + 2) = <<"  ">> \o var \o <<": ">>}}

\* C14: show_config never prints the complete value of a variable whose name
\* contains WEBHOOK, TOKEN or KEY and that is set to a non-empty value: a value of
\* more than 10 characters is printed as its first 10 characters and "***", a
\* shorter one as "***".
C14_SensitiveValuesMasked ==
    (main_pc = "done" /\ ran = <<"show_config">>) =>
        \A var \in EnvNames :
            (IsSensitive(var) /\ environ[var] # Unset /\ environ[var] # <<>>) =>
                /\ ConfigLine(var, environ[var]) \notin ConfigLinesOf(var)
                /\ ConfigLinesOf(var) \subseteq
                      {ConfigLine(var, IF Len(environ[var]) > 10
                                       THEN SubSeq(environ[var], 1, 10) \o <<"*", "*", "*">>
                                       ELSE <<"*", "*", "*">>)}

====
